---------------------------- MODULE Spec2Model ----------------------------
(***************************************************************************)
(* TranslationScreen (React Native): the voice-capture -> transcription -> *)
(* translation -> speech orchestration of the taxi translator client.      *)
(*                                                                         *)
(* The component is modelled as the event loop sees it.  A state is the    *)
(* component between two macrotasks; a step is one macrotask: a gesture, a *)
(* timer callback, or the resolution of one awaited promise together with  *)
(* the synchronous continuation that follows it up to the next await.      *)
(*                                                                         *)
(* React state (useState) is read by handlers through the closure of the   *)
(* render in which the handler was created.  A handler invoked by a        *)
(* gesture captures the state as it is rendered at the gesture (Closure);  *)
(* every callback it schedules keeps that closure, as the JavaScript does. *)
(* Refs (useRef) are shared cells, read and written in place.              *)
(*                                                                         *)
(* expo-av, expo-speech, fetch and the recogniser are the environment: an  *)
(* awaited call resolves at any later step and succeeds or throws.         *)
(***************************************************************************)
EXTENDS Integers, Sequences, FiniteSets, Bags, TLC

VARIABLES
    \* useState cells
    inputText, translatedText, targetLanguage, loading, isRecording,
    isListening, languages, hasAudioPermission, isTranscribing,
    \* useRef cells
    recordingRef, recordingTimeoutRef, isRecordingRef, isMountedRef,
    \* environment
    rec,        \* the Audio.Recording objects created so far, in order of creation
    tasks,      \* bag of suspended async function activations
    timers,     \* bag of pending setTimeout callbacks
    dialogs,    \* bag of 'Voice Input' alerts waiting for a button
    speaking,   \* what expo-speech is playing
    gestures,   \* how many gestures the user has made
    budget,     \* how many gestures the user makes at most
    \* history
    stopDuringStart,  \* a stopRecording was invoked while a startRecording was suspended
    noopStops,        \* a stopRecording took the 'No active recording to stop' return
    nativeFault,      \* an expo-av call has thrown
    alerts,           \* titles of the Alert.alert() boxes shown so far
    translations,     \* requests sent to POST /translate so far, and which one is shown
    \* the recording-duration readout
    display     \* recordingDuration, durationIntervalRef and the setInterval timers

stateVars == <<inputText, translatedText, targetLanguage, loading, isRecording,
               isListening, languages, hasAudioPermission, isTranscribing>>
refVars   == <<recordingRef, recordingTimeoutRef, isRecordingRef, isMountedRef>>
envVars   == <<rec, tasks, timers, dialogs, speaking, gestures, budget>>
histVars  == <<stopDuringStart, noopStops, nativeFault>>
vars      == <<stateVars, refVars, envVars, histVars, alerts, translations, display>>

----------------------------------------------------------------------------
(* Bounds of the exploration *)

\* gestures (taps, edits, teardown) the user makes on one screen
MaxGestures == 3
\* gestures of a driver who uses nothing but the voice button
MaxVoiceGestures == 2
\* gestures of a driver who never uses the voice button
MaxTextGestures == 4
\* seconds the duration readout counts up to
MaxDuration == 2

----------------------------------------------------------------------------
(* Texts are sequences of characters *)

EmptyText == <<>>

Space == " "

\* String.prototype.trim
RECURSIVE TrimLeft(_)
TrimLeft(s) == IF s # <<>> /\ Head(s) = Space THEN TrimLeft(Tail(s)) ELSE s

RECURSIVE TrimRight(_)
TrimRight(s) ==
    IF s # <<>> /\ s[Len(s)] = Space THEN TrimRight(SubSeq(s, 1, Len(s) - 1)) ELSE s

Trim(s) == TrimRight(TrimLeft(s))

\* JavaScript truthiness of a string
Truthy(s) == s # EmptyText

ThankYou == <<"T", "h", "a", "n", "k", " ", "y", "o", "u">>
StopHere == <<"P", "l", "e", "a", "s", "e", " ", "s", "t", "o", "p">>

\* quick-phrase buttons (two of the fifteen)
quickPhrases == {ThankYou}

\* phrases the stand-in recogniser returns (two of the twenty)
commonPhrases == {ThankYou, StopHere}

\* what the driver may type into the input field
TypedTexts == {EmptyText, <<" ">>, <<"H", "i">>}

\* GET /languages when it succeeds, by lang_code
Catalog == <<"en", "zu", "st">>

\* fallback when the catalog cannot be loaded
DefaultLanguages == <<"zu", "xh", "af", "st">>

\* the body of POST /translate
Request(text, target) == [text |-> text, source_lang |-> "en", target_lang |-> target]

\* an activation that holds no request
NoRequest == Request(EmptyText, "none")

\* POST /translate: the service's translated_text for a request
TranslateService(req) == <<req.target_lang, ":">> \o req.text

\* a faulty variant of the mapping below, which knows isiZulu only
LanguageCodeZuluOnly(target) == IF target = "zu" THEN "zu-ZA" ELSE "en-US"

\* speakTranslatedText's language code
LanguageCode(target) ==
    IF target = "zu" THEN "zu-ZA"
    ELSE IF target = "xh" THEN "xh-ZA"
    ELSE IF target = "af" THEN "af-ZA"
    ELSE IF target = "st" THEN "st-ZA"
    ELSE "en-US"

NotSpeaking == [text |-> EmptyText, language |-> "none"]

----------------------------------------------------------------------------
(* Bags *)

Add(b, e) == b (+) SetToBag({e})
Remove(b, e) == b (-) SetToBag({e})

\* clearTimeout(recordingTimeoutRef.current): the auto-stop timer of that id, if pending
ClearTimeout(tms, id) ==
    [tm \in {x \in DOMAIN tms : ~(x.kind = "autoStop" /\ x.r = id)} |-> tms[tm]]

----------------------------------------------------------------------------
(* Closures and activations *)

\* the useState values of the current render
Closure ==
    [inputText |-> inputText, translatedText |-> translatedText,
     targetLanguage |-> targetLanguage, hasAudioPermission |-> hasAudioPermission]

NoClosure ==
    [inputText |-> EmptyText, translatedText |-> EmptyText,
     targetLanguage |-> "zu", hasAudioPermission |-> FALSE]

\* an async function suspended at pc: r is the Recording it awaits on, parent
\* tells a cleanupRecording who awaits it, cl is the closure of the render the
\* function belongs to, arg is a local value (the body of a request)
Task(pc, r, parent, cl, arg) ==
    [pc |-> pc, r |-> r, parent |-> parent, cl |-> cl, arg |-> arg]

\* a pending setTimeout callback, or an alert waiting for a button; arg is the
\* local value in the callback's scope (simulatedText, phrase, data.translated_text)
Timer(kind, r, cl, arg) == [kind |-> kind, r |-> r, cl |-> cl, arg |-> arg]

StartPcs == {"s_delay", "s_mode", "s_prepare", "s_start"}
StopPcs  == {"p_status", "p_unload"}

\* a startRecording that has been called and has not yet returned
IsStartTask(t) == t.pc \in StartPcs \/ (t.pc \in {"c_status", "c_unload"} /\ t.parent = "start")

\* a stopRecording between its status query and its finally block
IsStopTask(t) == t.pc \in StopPcs

StartsInFlight == BagCardinality([t \in {x \in DOMAIN tasks : IsStartTask(x)} |-> tasks[t]])
StopsInFlight  == BagCardinality([t \in {x \in DOMAIN tasks : IsStopTask(x)} |-> tasks[t]])

\* the recordings that are started and not yet stopped-and-unloaded
Live == {r \in DOMAIN rec : rec[r].st = "recording"}

\* the user makes one more gesture
Gesture ==
    /\ gestures < budget
    /\ gestures' = gestures + 1
    /\ UNCHANGED budget


----------------------------------------------------------------------------
(* Construction: the first render and the mount effect, which calls        *)
(* loadLanguages() and setupAudio(); both are suspended at their first     *)
(* await when the effect returns.                                          *)

Mounted ==
    /\ inputText = EmptyText
    /\ translatedText = EmptyText
    /\ targetLanguage = "zu"
    /\ loading = FALSE
    /\ isRecording = FALSE
    /\ isListening = FALSE
    /\ languages = <<>>
    /\ hasAudioPermission = FALSE
    /\ isTranscribing = FALSE
    /\ recordingRef = 0
    /\ recordingTimeoutRef = 0
    /\ isRecordingRef = FALSE
    /\ isMountedRef = TRUE
    /\ rec = <<>>
    /\ tasks = SetToBag({Task("l_fetch", 0, "none", NoClosure, NoRequest),
                         Task("a_perm", 0, "none", NoClosure, NoRequest)})
    /\ timers = EmptyBag
    /\ dialogs = EmptyBag
    /\ speaking = NotSpeaking
    /\ gestures = 0
    /\ stopDuringStart = FALSE
    /\ noopStops = FALSE
    /\ nativeFault = FALSE
    /\ alerts = {}
    /\ translations = [issued |-> 0, shown |-> 0]
    /\ display = [recordingDuration |-> 0, durationIntervalRef |-> 0, intervals |-> {}, created |-> 0]

Init == Mounted /\ budget = MaxGestures

InitVoice == Mounted /\ budget = MaxVoiceGestures

InitText == Mounted /\ budget = MaxTextGestures

----------------------------------------------------------------------------
(* loadLanguages and setupAudio *)

\* how GET /languages can settle: a 2xx response with a languages list or
\* without one, a response that is not ok, or a rejected fetch
CatalogOutcomes == {"2xx", "2xxNoList", "non2xx", "network"}

\* data.languages || []
ResponseLanguages(outcome) == IF outcome = "2xx" THEN Catalog ELSE <<>>

\* a faulty variant of the continuation below, whose catch sets no fallback
LoadLanguagesSettlesNoFallback(t, outcome) ==
    /\ t.pc = "l_fetch"
    /\ languages' = IF outcome \in {"2xx", "2xxNoList"}
                    THEN ResponseLanguages(outcome)
                    ELSE languages
    /\ tasks' = Remove(tasks, t)
    /\ UNCHANGED <<inputText, translatedText, targetLanguage, loading, translations, isRecording,
                   isListening, display, hasAudioPermission, isTranscribing>>
    /\ UNCHANGED <<refVars, rec, timers, dialogs, speaking, gestures, budget, histVars>>
    /\ alerts' = IF outcome \in {"2xx", "2xxNoList"} THEN alerts ELSE alerts \cup {"Error"}

\* loadLanguages resumed after its fetch: setLanguages of the response, or
\* the catch with the alert and the four default languages
LoadLanguagesSettles(t, outcome) ==
    /\ t.pc = "l_fetch"
    /\ languages' = IF outcome \in {"2xx", "2xxNoList"}
                    THEN ResponseLanguages(outcome)
                    ELSE DefaultLanguages
    /\ tasks' = Remove(tasks, t)
    /\ UNCHANGED <<inputText, translatedText, targetLanguage, loading, translations, isRecording,
                   isListening, display, hasAudioPermission, isTranscribing>>
    /\ UNCHANGED <<refVars, rec, timers, dialogs, speaking, gestures, budget, histVars>>
    /\ alerts' = IF outcome \in {"2xx", "2xxNoList"} THEN alerts ELSE alerts \cup {"Error"}

LoadLanguagesResolves ==
    \E t \in DOMAIN tasks : \E outcome \in CatalogOutcomes : LoadLanguagesSettles(t, outcome)

\* setupAudio resumed after Audio.requestPermissionsAsync()
SetupAudioPermissionSettles(t, status) ==
    /\ t.pc = "a_perm"
    /\ IF status = "granted"
       THEN /\ tasks' = Add(Remove(tasks, t), [t EXCEPT !.pc = "a_mode"])
            /\ UNCHANGED hasAudioPermission
       ELSE /\ tasks' = Remove(tasks, t)
            /\ hasAudioPermission' = FALSE
    /\ alerts' = CASE status = "granted" -> alerts
                   [] status = "denied" -> alerts \cup {"Permission Required"}
                   [] OTHER -> alerts \cup {"Audio Error"}
    /\ UNCHANGED <<inputText, translatedText, targetLanguage, loading, translations, isRecording,
                   isListening, display, languages, isTranscribing>>
    /\ UNCHANGED <<refVars, rec, timers, dialogs, speaking, gestures, budget, histVars>>

SetupAudioPermissionResolves ==
    \E t \in DOMAIN tasks : \E status \in {"granted", "denied", "throw"} :
        SetupAudioPermissionSettles(t, status)

\* setupAudio resumed after Audio.setAudioModeAsync()
SetupAudioModeSettles(t, ok) ==
    /\ t.pc = "a_mode"
    /\ hasAudioPermission' = ok
    /\ tasks' = Remove(tasks, t)
    /\ alerts' = IF ok THEN alerts ELSE alerts \cup {"Audio Error"}
    /\ UNCHANGED <<inputText, translatedText, targetLanguage, loading, translations, isRecording,
                   isListening, display, languages, isTranscribing>>
    /\ UNCHANGED <<refVars, rec, timers, dialogs, speaking, gestures, budget, histVars>>

SetupAudioModeResolves ==
    \E t \in DOMAIN tasks : \E ok \in BOOLEAN : SetupAudioModeSettles(t, ok)

----------------------------------------------------------------------------
(* Fragments shared by the recording functions *)

\* clearInterval(durationIntervalRef.current), if the ref holds an id
ClearDurationInterval(d) == [d EXCEPT !.intervals = @ \ {d.durationIntervalRef}]

\* a faulty variant of the effect below, whose cleanup leaves the interval on
DisplayTimerEffectNoCleanup(v) ==
    IF v = isRecording
    THEN display
    ELSE IF v
    THEN [display EXCEPT !.intervals = @ \cup {display.created + 1},
                         !.durationIntervalRef = display.created + 1,
                         !.created = @ + 1]
    ELSE display

\* the effect on [isRecording], run by the render that follows a change of
\* isRecording to v: the cleanup of the previous run, then setInterval when
\* recording, clearInterval when not
DisplayTimerEffect(v) ==
    IF v = isRecording
    THEN display
    ELSE IF v
    THEN [ClearDurationInterval(display) EXCEPT
             !.intervals = @ \cup {display.created + 1},
             !.durationIntervalRef = display.created + 1,
             !.created = @ + 1]
    ELSE ClearDurationInterval(display)

\* if (isMountedRef.current) { setIsRecording(v); setIsListening(v); }
\* followed by the render; with the screen torn down, or being torn down,
\* the cleanups of the effects have cleared the interval
SetRecordingFlags(mounted, v) ==
    IF mounted
    THEN isRecording' = v /\ isListening' = v /\ display' = DisplayTimerEffect(v)
    ELSE /\ UNCHANGED <<isRecording, isListening>>
         /\ display' = ClearDurationInterval(display)

\* the interval's callback: setRecordingDuration(prev => prev + 1)
DisplayTick ==
    /\ display.intervals # {}
    /\ display.recordingDuration < MaxDuration
    /\ display' = [display EXCEPT !.recordingDuration = @ + 1]
    /\ UNCHANGED <<stateVars, translations, refVars, envVars, histVars, alerts>>

\* a faulty variant of the pair below, which forgets the flag
ClearRefsKeepsFlag ==
    /\ recordingRef' = 0
    /\ UNCHANGED isRecordingRef

\* recordingRef.current = null; isRecordingRef.current = false;
ClearRefs ==
    /\ recordingRef' = 0
    /\ isRecordingRef' = FALSE

\* getStatusAsync() of r reports canRecord && isRecording
IsRecordingNow(r) == r \in DOMAIN rec /\ rec[r].st = "recording"

\* the Recording with one more stopAndUnloadAsync() called on it
WithStopCall(r) == [rec EXCEPT ![r].stops = @ + 1]

\* the Recording objects after a stopAndUnloadAsync() on r has settled:
\* released when it succeeded, released or not when it threw
AfterUnload(r, ok, released) ==
    IF ok \/ (released /\ IsRecordingNow(r))
    THEN [rec EXCEPT ![r].st = "done"]
    ELSE rec

\* stopAndUnloadAsync() can succeed only on a Recording that is recording
CanUnload(r) == IsRecordingNow(r)

----------------------------------------------------------------------------
(* cleanupRecording *)

\* the call, up to its first await or, with no reference held, to its return
CleanupRecordingCall(parent, cl, tks, mounted) ==
    IF recordingRef # 0
    THEN /\ tasks' = Add(tks, Task("c_status", recordingRef, parent, cl, NoRequest))
         /\ UNCHANGED <<isRecordingRef, isRecording, isListening>>
         /\ display' = IF mounted THEN display ELSE ClearDurationInterval(display)
    ELSE /\ isRecordingRef' = FALSE
         /\ SetRecordingFlags(mounted, FALSE)
         /\ tasks' = IF parent = "start"
                     THEN Add(tks, Task("s_delay", 0, "none", cl, NoRequest))
                     ELSE tks

\* the tail of cleanupRecording after its inner try/catch, and its return
CleanupFinish(t) ==
    /\ ClearRefs
    /\ SetRecordingFlags(isMountedRef, FALSE)
    /\ tasks' = IF t.parent = "start"
                THEN Add(Remove(tasks, t), Task("s_delay", 0, "none", t.cl, NoRequest))
                ELSE Remove(tasks, t)

CleanupStatusSettles(t, ok) ==
    /\ nativeFault' = (nativeFault \/ ~ok)
    /\ t.pc = "c_status"
    /\ IF ok /\ IsRecordingNow(t.r) /\ recordingRef # 0
       THEN \* status.isRecording: recordingRef.current.stopAndUnloadAsync()
            /\ rec' = WithStopCall(recordingRef)
            /\ tasks' = Add(Remove(tasks, t),
                            [t EXCEPT !.pc = "c_unload", !.r = recordingRef])
            /\ UNCHANGED <<recordingRef, isRecordingRef, isRecording, isListening, display>>
       ELSE \* not recording, the query threw, or the reference is null by now
            /\ CleanupFinish(t)
            /\ UNCHANGED rec
    /\ UNCHANGED <<inputText, translatedText, targetLanguage, loading, translations, languages,
                   hasAudioPermission, isTranscribing>>
    /\ UNCHANGED <<recordingTimeoutRef, isMountedRef, timers, dialogs, speaking, gestures, budget,
                   stopDuringStart, noopStops, alerts>>

CleanupStatusResolves ==
    \E t \in DOMAIN tasks : \E ok \in BOOLEAN : CleanupStatusSettles(t, ok)

CleanupUnloadSettles(t, ok, released) ==
    /\ nativeFault' = (nativeFault \/ ~ok)
    /\ t.pc = "c_unload"
    /\ ok => CanUnload(t.r) /\ released
    /\ rec' = AfterUnload(t.r, ok, released)
    /\ CleanupFinish(t)
    /\ UNCHANGED <<inputText, translatedText, targetLanguage, loading, translations, languages,
                   hasAudioPermission, isTranscribing>>
    /\ UNCHANGED <<recordingTimeoutRef, isMountedRef, timers, dialogs, speaking, gestures, budget,
                   stopDuringStart, noopStops, alerts>>

CleanupUnloadResolves ==
    \E t \in DOMAIN tasks : \E ok \in BOOLEAN : \E released \in BOOLEAN : CleanupUnloadSettles(t, ok, released)

----------------------------------------------------------------------------
(* startRecording *)

\* a faulty variant of the call below, without the permission guard
StartRecordingUnguarded(cl) ==
    /\ CleanupRecordingCall("start", cl, tasks, isMountedRef)
    /\ UNCHANGED alerts

\* the call: the permission guard, then 'await cleanupRecording()'
StartRecording(cl) ==
    IF ~cl.hasAudioPermission
    THEN /\ alerts' = alerts \cup {"Permission Required"}
         /\ UNCHANGED <<tasks, isRecordingRef, isRecording, isListening, display>>
    ELSE /\ CleanupRecordingCall("start", cl, tasks, isMountedRef)
         /\ UNCHANGED alerts

\* the 300 ms settling delay is over: Vibration, then Audio.setAudioModeAsync()
StartDelayElapses ==
    \E t \in DOMAIN tasks :
        /\ t.pc = "s_delay"
        /\ tasks' = Add(Remove(tasks, t), [t EXCEPT !.pc = "s_mode"])
        /\ UNCHANGED <<stateVars, translations, display, refVars, rec, timers, dialogs, speaking, gestures, budget, histVars, alerts>>

\* the id of the Audio.Recording that 'new Audio.Recording()' creates next
NextRecording == Len(rec) + 1

\* setAudioModeAsync settled: new Audio.Recording() and prepareToRecordAsync(),
\* or the outer catch
StartModeSettles(t, ok) ==
    /\ nativeFault' = (nativeFault \/ ~ok)
    /\ t.pc = "s_mode"
    /\ IF ok
       THEN /\ rec' = Append(rec, [st |-> "created", stops |-> 0, handed |-> 0])
            /\ tasks' = Add(Remove(tasks, t),
                            [t EXCEPT !.pc = "s_prepare", !.r = NextRecording])
            /\ UNCHANGED <<isRecording, isListening, display>>
       ELSE /\ SetRecordingFlags(isMountedRef, FALSE)
            /\ tasks' = Remove(tasks, t)
            /\ UNCHANGED rec
    /\ UNCHANGED <<inputText, translatedText, targetLanguage, loading, translations, languages,
                   hasAudioPermission, isTranscribing>>
    /\ UNCHANGED <<refVars, timers, dialogs, speaking, gestures, budget, stopDuringStart, noopStops, alerts>>

StartModeResolves ==
    \E t \in DOMAIN tasks : \E ok \in BOOLEAN : StartModeSettles(t, ok)

\* a faulty variant of the catch block below, which lowers the flags only
AcquireFailedFlagsOnly(t) ==
    /\ SetRecordingFlags(isMountedRef, FALSE)
    /\ tasks' = Remove(tasks, t)
    /\ UNCHANGED <<recordingRef, isRecordingRef, recordingTimeoutRef, timers, alerts>>

\* catch (prepareError): the references are cleared whatever they hold
AcquireFailed(t) ==
    /\ ClearRefs
    /\ SetRecordingFlags(isMountedRef, FALSE)
    /\ tasks' = Remove(tasks, t)
    /\ UNCHANGED <<recordingTimeoutRef, timers>>
    /\ alerts' = alerts \cup {"Recording Error"}

\* startAsync() succeeded: publish the recording and arm the auto-stop timer
Acquired(t) ==
    /\ recordingRef' = t.r
    /\ isRecordingRef' = TRUE
    /\ SetRecordingFlags(isMountedRef, TRUE)
    /\ timers' = Add(ClearTimeout(timers, recordingTimeoutRef),
                     Timer("autoStop", t.r, t.cl, EmptyText))
    /\ recordingTimeoutRef' = t.r
    /\ tasks' = Remove(tasks, t)
    /\ UNCHANGED alerts

\* startRecording resumed after prepareToRecordAsync() settled
StartPrepareSettles(t, ok) ==
    /\ nativeFault' = (nativeFault \/ ~ok)
    /\ t.pc = "s_prepare"
    /\ IF ok
       THEN /\ rec' = [rec EXCEPT ![t.r].st = "prepared"]
            /\ tasks' = Add(Remove(tasks, t), [t EXCEPT !.pc = "s_start"])
            /\ UNCHANGED <<recordingRef, isRecordingRef, isRecording, isListening, display,
                           recordingTimeoutRef, timers, alerts>>
       ELSE /\ AcquireFailed(t)
            /\ UNCHANGED rec
    /\ UNCHANGED <<inputText, translatedText, targetLanguage, loading, translations, languages,
                   hasAudioPermission, isTranscribing>>
    /\ UNCHANGED <<isMountedRef, dialogs, speaking, gestures, budget, stopDuringStart, noopStops>>

StartPrepareResolves ==
    \E t \in DOMAIN tasks : \E ok \in BOOLEAN : StartPrepareSettles(t, ok)

\* startRecording resumed after startAsync() settled
StartStartSettles(t, ok) ==
    /\ nativeFault' = (nativeFault \/ ~ok)
    /\ t.pc = "s_start"
    /\ IF ok
       THEN /\ rec' = [rec EXCEPT ![t.r].st = "recording"]
            /\ Acquired(t)
       ELSE /\ AcquireFailed(t)
            /\ UNCHANGED rec
    /\ UNCHANGED <<inputText, translatedText, targetLanguage, loading, translations, languages,
                   hasAudioPermission, isTranscribing>>
    /\ UNCHANGED <<isMountedRef, dialogs, speaking, gestures, budget, stopDuringStart, noopStops>>

StartStartResolves ==
    \E t \in DOMAIN tasks : \E ok \in BOOLEAN : StartStartSettles(t, ok)

----------------------------------------------------------------------------
(* stopRecording and processRecordedAudio *)

\* if (!isRecordingRef.current || !recordingRef.current)
NoActiveRecording == ~isRecordingRef \/ recordingRef = 0

\* a faulty variant of the branch below, which falls through to the status
\* query instead of returning
StopNoActiveFallsThrough(tks) ==
    /\ SetRecordingFlags(isMountedRef, FALSE)
    /\ tasks' = Add(tks, Task("p_status", recordingRef, "none", Closure, NoRequest))
    /\ noopStops' = TRUE

\* the 'No active recording to stop' branch: flags down, return
StopNoActive(tks) ==
    /\ SetRecordingFlags(isMountedRef, FALSE)
    /\ tasks' = tks
    /\ noopStops' = TRUE

\* the call, made by the voice button ("none") or by the auto-stop timer
\* ("timer"): disarm the auto-stop timer, then return early or query the status
StopRecordingBy(caller, cl, tms) ==
    /\ timers' = ClearTimeout(tms, recordingTimeoutRef)
    /\ recordingTimeoutRef' = 0
    /\ stopDuringStart' = (stopDuringStart \/ StartsInFlight > 0)
    /\ UNCHANGED <<nativeFault, alerts>>
    /\ IF NoActiveRecording
       THEN StopNoActive(tasks)
       ELSE /\ tasks' = Add(tasks, Task("p_status", recordingRef, caller, cl, NoRequest))
            /\ UNCHANGED <<isRecording, isListening, display, noopStops>>

StopRecording(cl, tms) == StopRecordingBy("none", cl, tms)

\* a faulty variant of the finally block below, which lowers the flags but
\* keeps the references
StopFinallyKeepsRefs ==
    /\ UNCHANGED <<recordingRef, isRecordingRef>>
    /\ SetRecordingFlags(isMountedRef, FALSE)

\* finally { references cleared, flags down }; nothing to process: return
StopFinally ==
    /\ ClearRefs
    /\ SetRecordingFlags(isMountedRef, FALSE)

\* a faulty variant of the call below, which discards the utterance
ProcessRecordedAudioDropped(t, uri) ==
    /\ tasks' = Remove(tasks, t)
    /\ UNCHANGED isTranscribing

\* processRecordedAudio(uri) called by stopRecording after its finally block
ProcessRecordedAudio(t, uri) ==
    IF ~isMountedRef
    THEN /\ tasks' = Remove(tasks, t)
         /\ UNCHANGED isTranscribing
    ELSE /\ isTranscribing' = TRUE
         /\ tasks' = Add(Remove(tasks, t), [t EXCEPT !.pc = "p_transcribe", !.r = uri])

\* stopRecording resumed after getStatusAsync() settled
StopStatusSettles(t, ok) ==
    /\ nativeFault' = (nativeFault \/ ~ok)
    /\ t.pc = "p_status"
    /\ IF ok /\ IsRecordingNow(t.r) /\ recordingRef # 0
       THEN \* canRecord && isRecording: recordingRef.current.stopAndUnloadAsync()
            /\ rec' = WithStopCall(recordingRef)
            /\ tasks' = Add(Remove(tasks, t),
                            [t EXCEPT !.pc = "p_unload", !.r = recordingRef])
            /\ UNCHANGED <<recordingRef, isRecordingRef, isRecording, isListening, display>>
       ELSE \* not recording, the query threw, or the reference is null by now
            /\ StopFinally
            /\ tasks' = Remove(tasks, t)
            /\ UNCHANGED rec
    /\ UNCHANGED <<inputText, translatedText, targetLanguage, loading, translations, languages,
                   hasAudioPermission, isTranscribing>>
    /\ UNCHANGED <<recordingTimeoutRef, isMountedRef, timers, dialogs, speaking, gestures, budget,
                   stopDuringStart, noopStops, alerts>>

StopStatusResolves ==
    \E t \in DOMAIN tasks : \E ok \in BOOLEAN : StopStatusSettles(t, ok)

\* stopRecording resumed after stopAndUnloadAsync() settled
StopUnloadSettles(t, ok, released) ==
    /\ nativeFault' = (nativeFault \/ ~ok)
    /\ t.pc = "p_unload"
    /\ ok => CanUnload(t.r) /\ released
    /\ StopFinally
    /\ IF ok /\ recordingRef # 0
       THEN \* uri = recordingRef.current.getURI(), of whatever is referenced now
            /\ rec' = [AfterUnload(t.r, ok, released) EXCEPT
                          ![recordingRef].handed = @ + 1]
            /\ ProcessRecordedAudio(t, recordingRef)
       ELSE \* the stop threw, or getURI() was called on null: no uri
            /\ rec' = AfterUnload(t.r, ok, released)
            /\ tasks' = Remove(tasks, t)
            /\ UNCHANGED isTranscribing
    /\ UNCHANGED <<inputText, translatedText, targetLanguage, loading, translations, languages,
                   hasAudioPermission>>
    /\ UNCHANGED <<recordingTimeoutRef, isMountedRef, timers, dialogs, speaking, gestures, budget,
                   stopDuringStart, noopStops, alerts>>

StopUnloadResolves ==
    \E t \in DOMAIN tasks : \E ok \in BOOLEAN : \E released \in BOOLEAN : StopUnloadSettles(t, ok, released)

\* a faulty variant of the continuation below, which takes whatever the
\* recogniser returned as text
TranscriptionSettlesUnchecked(t, simulatedText) ==
    /\ t.pc = "p_transcribe"
    /\ tasks' = Remove(tasks, t)
    /\ IF isMountedRef
       THEN /\ inputText' = simulatedText
            /\ timers' = Add(timers, Timer("showAlert", 0, t.cl, simulatedText))
            /\ isTranscribing' = FALSE
       ELSE UNCHANGED <<inputText, timers, isTranscribing>>
    /\ UNCHANGED <<translatedText, targetLanguage, loading, translations, isRecording, isListening, display,
                   languages, hasAudioPermission>>
    /\ UNCHANGED <<refVars, rec, dialogs, speaking, gestures, budget, histVars, alerts>>

\* processRecordedAudio resumed after simulateSpeechRecognition() resolved
\* with simulatedText: a phrase, or nothing (null or the empty string)
TranscriptionSettles(t, simulatedText) ==
    /\ t.pc = "p_transcribe"
    /\ tasks' = Remove(tasks, t)
    /\ IF Truthy(simulatedText) /\ isMountedRef
       THEN /\ inputText' = simulatedText
            /\ timers' = Add(timers, Timer("showAlert", 0, t.cl, simulatedText))
            /\ isTranscribing' = FALSE
            /\ UNCHANGED alerts
       ELSE /\ alerts' = IF isMountedRef THEN alerts \cup {"Speech Recognition"} ELSE alerts
            /\ isTranscribing' = IF isMountedRef THEN FALSE ELSE isTranscribing
            /\ UNCHANGED <<inputText, timers>>
    /\ UNCHANGED <<translatedText, targetLanguage, loading, translations, isRecording, isListening, display,
                   languages, hasAudioPermission>>
    /\ UNCHANGED <<refVars, rec, dialogs, speaking, gestures, budget, histVars>>

\* a faulty variant of the continuation below, without the finally block
TranscriptionThrowsNoFinally(t) ==
    /\ t.pc = "p_transcribe"
    /\ tasks' = Remove(tasks, t)
    /\ alerts' = IF isMountedRef THEN alerts \cup {"Speech Recognition Error"} ELSE alerts
    /\ UNCHANGED <<inputText, translatedText, targetLanguage, loading, translations, isRecording,
                   isListening, display, languages, hasAudioPermission, isTranscribing>>
    /\ UNCHANGED <<refVars, rec, timers, dialogs, speaking, gestures, budget, histVars>>

\* processRecordedAudio resumed after simulateSpeechRecognition() rejected:
\* catch, finally
TranscriptionThrows(t) ==
    /\ t.pc = "p_transcribe"
    /\ tasks' = Remove(tasks, t)
    /\ alerts' = IF isMountedRef THEN alerts \cup {"Speech Recognition Error"} ELSE alerts
    /\ isTranscribing' = IF isMountedRef THEN FALSE ELSE isTranscribing
    /\ UNCHANGED <<inputText, translatedText, targetLanguage, loading, translations, isRecording,
                   isListening, display, languages, hasAudioPermission>>
    /\ UNCHANGED <<refVars, rec, timers, dialogs, speaking, gestures, budget, histVars>>

TranscriptionResolves ==
    \E t \in DOMAIN tasks : \E simulatedText \in commonPhrases :
        TranscriptionSettles(t, simulatedText)

\* a recogniser that yields no text or fails, which the stand-in
\* simulateSpeechRecognition never does
RecognitionFails ==
    \E t \in DOMAIN tasks : TranscriptionSettles(t, EmptyText) \/ TranscriptionThrows(t)

----------------------------------------------------------------------------
(* The voice button and the auto-stop timer *)

\* disabled={loading || !hasAudioPermission || isTranscribing}
VoiceButtonDisabled == loading \/ ~hasAudioPermission \/ isTranscribing

\* a faulty variant of the handler below, which starts a capture whatever the
\* live-session flag says
HandleVoiceTranslateAlwaysStarts ==
    /\ isMountedRef
    /\ ~VoiceButtonDisabled
    /\ Gesture
    /\ StartRecording(Closure)
    /\ UNCHANGED <<recordingRef, recordingTimeoutRef, timers, histVars>>
    /\ UNCHANGED <<inputText, translatedText, targetLanguage, loading, translations, languages,
                   hasAudioPermission, isTranscribing>>
    /\ UNCHANGED <<isMountedRef, rec, dialogs, speaking>>

\* handleVoiceTranslate: a toggle on the live-session flag
HandleVoiceTranslate ==
    /\ isMountedRef
    /\ ~VoiceButtonDisabled
    /\ Gesture
    /\ IF isRecordingRef
       THEN /\ StopRecording(Closure, timers)
            /\ UNCHANGED <<recordingRef, isRecordingRef>>
       ELSE /\ StartRecording(Closure)
            /\ UNCHANGED <<recordingRef, recordingTimeoutRef, timers, histVars>>
    /\ UNCHANGED <<inputText, translatedText, targetLanguage, loading, translations, languages,
                   hasAudioPermission, isTranscribing>>
    /\ UNCHANGED <<isMountedRef, rec, dialogs, speaking>>

\* the 8 s timeout armed by startRecording fires
AutoStopFires ==
    \E tm \in DOMAIN timers :
        /\ tm.kind = "autoStop"
        /\ IF isRecordingRef
           THEN StopRecordingBy("timer", tm.cl, Remove(timers, tm))
           ELSE /\ timers' = Remove(timers, tm)
                /\ UNCHANGED <<tasks, recordingTimeoutRef, isRecording, isListening, display,
                               histVars, alerts>>
        /\ UNCHANGED <<inputText, translatedText, targetLanguage, loading, translations, languages,
                       hasAudioPermission, isTranscribing>>
        /\ UNCHANGED <<recordingRef, isRecordingRef, isMountedRef, rec, dialogs, speaking,
                       gestures, budget>>

----------------------------------------------------------------------------
(* The recognised-text alert *)

\* the 100 ms timeout of processRecordedAudio: Alert.alert('Voice Input', ...)
ShowDetectedAlert ==
    \E tm \in DOMAIN timers :
        /\ tm.kind = "showAlert"
        /\ timers' = Remove(timers, tm)
        /\ dialogs' = IF isMountedRef THEN Add(dialogs, tm) ELSE dialogs
        /\ UNCHANGED <<stateVars, translations, display, refVars, rec, tasks, speaking, gestures, budget, histVars, alerts>>

\* the alert's 'Translate' button: setTimeout(() => handleTranslate(), 500)
PressAlertTranslate ==
    \E d \in DOMAIN dialogs :
        /\ Gesture
        /\ dialogs' = Remove(dialogs, d)
        /\ timers' = Add(timers, Timer("confirmed", 0, d.cl, d.arg))
        /\ UNCHANGED <<stateVars, translations, display, refVars, rec, tasks, speaking, histVars, alerts>>

\* the alert's 'Cancel' button
PressAlertCancel ==
    \E d \in DOMAIN dialogs :
        /\ Gesture
        /\ dialogs' = Remove(dialogs, d)
        /\ UNCHANGED <<stateVars, translations, display, refVars, rec, tasks, timers, speaking, histVars, alerts>>

----------------------------------------------------------------------------
(* handleTranslate and speakTranslatedText *)

\* a faulty variant of the call below, which tests the input without trim()
HandleTranslateUntrimmed(cl, tks) ==
    IF cl.inputText = EmptyText
    THEN /\ alerts' = alerts \cup {"Error"}
         /\ tasks' = tks
         /\ UNCHANGED <<loading, translations>>
    ELSE IF ~isMountedRef
    THEN /\ tasks' = tks
         /\ UNCHANGED <<loading, translations, alerts>>
    ELSE /\ UNCHANGED alerts
         /\ loading' = TRUE
         /\ translations' = [translations EXCEPT !.issued = @ + 1]
         /\ tasks' = Add(tks, Task("t_fetch", translations.issued + 1, "none", cl,
                                   Request(cl.inputText, cl.targetLanguage)))

\* the call, with the inputText and targetLanguage of its closure, up to the fetch
HandleTranslate(cl, tks) ==
    IF Trim(cl.inputText) = EmptyText
    THEN /\ alerts' = alerts \cup {"Error"}
         /\ tasks' = tks
         /\ UNCHANGED <<loading, translations>>
    ELSE IF ~isMountedRef
    THEN /\ tasks' = tks
         /\ UNCHANGED <<loading, translations, alerts>>
    ELSE /\ UNCHANGED alerts
         /\ loading' = TRUE
         /\ translations' = [translations EXCEPT !.issued = @ + 1]
         /\ tasks' = Add(tks, Task("t_fetch", translations.issued + 1, "none", cl,
                                   Request(cl.inputText, cl.targetLanguage)))

\* a faulty variant of the function below, without the mounted check
SpeakTranslatedTextUnguarded(cl) ==
    IF Truthy(cl.translatedText)
    THEN speaking' = [text |-> cl.translatedText,
                      language |-> LanguageCode(cl.targetLanguage)]
    ELSE UNCHANGED speaking

\* if (translatedText && isMountedRef.current) Speech.speak(translatedText, ...)
SpeakTranslatedText(cl) ==
    IF Truthy(cl.translatedText) /\ isMountedRef
    THEN speaking' = [text |-> cl.translatedText,
                      language |-> LanguageCode(cl.targetLanguage)]
    ELSE UNCHANGED speaking

\* the 500 ms timeout of the alert's 'Translate' button fires
ConfirmedTranslateFiresFor(tm) ==
    /\ tm.kind = "confirmed"
    /\ timers' = Remove(timers, tm)
    /\ HandleTranslate(tm.cl, tasks)
    /\ UNCHANGED <<inputText, translatedText, targetLanguage, isRecording, isListening, display,
                   languages, hasAudioPermission, isTranscribing>>
    /\ UNCHANGED <<refVars, rec, dialogs, speaking, gestures, budget, histVars>>

ConfirmedTranslateFires == \E tm \in DOMAIN timers : ConfirmedTranslateFiresFor(tm)

\* the 100 ms timeout of handleQuickPhrase fires
QuickTranslateFiresFor(tm) ==
    /\ tm.kind = "quick"
    /\ timers' = Remove(timers, tm)
    /\ HandleTranslate(tm.cl, tasks)
    /\ UNCHANGED <<inputText, translatedText, targetLanguage, isRecording, isListening, display,
                   languages, hasAudioPermission, isTranscribing>>
    /\ UNCHANGED <<refVars, rec, dialogs, speaking, gestures, budget, histVars>>

QuickTranslateFires == \E tm \in DOMAIN timers : QuickTranslateFiresFor(tm)

\* how POST /translate can settle: a 2xx response with its JSON, a response
\* that is not ok, or a rejected fetch
TranslateOutcomes == {"2xx", "non2xx", "network"}

\* a faulty variant of the continuation below, which takes the success path
\* whatever the outcome
TranslateSettlesAsSuccess(t, outcome) ==
    /\ t.pc = "t_fetch"
    /\ tasks' = Remove(tasks, t)
    /\ IF isMountedRef
       THEN /\ translatedText' = TranslateService(t.arg)
            /\ translations' = [translations EXCEPT !.shown = t.r]
            /\ timers' = Add(timers, Timer("autoSpeak", 0, t.cl, TranslateService(t.arg)))
       ELSE UNCHANGED <<translatedText, translations, timers>>
    /\ loading' = IF isMountedRef THEN FALSE ELSE loading
    /\ UNCHANGED <<inputText, targetLanguage, isRecording, isListening, display, languages,
                   hasAudioPermission, isTranscribing>>
    /\ UNCHANGED <<refVars, rec, dialogs, speaking, gestures, budget, histVars, alerts>>

\* handleTranslate resumed after its fetch: the success path, or catch; finally
TranslateSettles(t, outcome) ==
    /\ t.pc = "t_fetch"
    /\ tasks' = Remove(tasks, t)
    /\ IF outcome = "2xx"
       THEN /\ IF isMountedRef
               THEN /\ translatedText' = TranslateService(t.arg)
                    /\ translations' = [translations EXCEPT !.shown = t.r]
                    /\ timers' = Add(timers,
                                     Timer("autoSpeak", 0, t.cl, TranslateService(t.arg)))
               ELSE UNCHANGED <<translatedText, translations, timers>>
            /\ UNCHANGED alerts
       ELSE /\ alerts' = IF isMountedRef THEN alerts \cup {"Translation Error"} ELSE alerts
            /\ UNCHANGED <<translatedText, translations, timers>>
    /\ loading' = IF isMountedRef THEN FALSE ELSE loading
    /\ UNCHANGED <<inputText, targetLanguage, isRecording, isListening, display, languages,
                   hasAudioPermission, isTranscribing>>
    /\ UNCHANGED <<refVars, rec, dialogs, speaking, gestures, budget, histVars>>

TranslateResolves ==
    \E t \in DOMAIN tasks : \E outcome \in TranslateOutcomes : TranslateSettles(t, outcome)

\* the 500 ms auto-speak timeout of handleTranslate fires
AutoSpeakFiresFor(tm) ==
    /\ tm.kind = "autoSpeak"
    /\ timers' = Remove(timers, tm)
    /\ SpeakTranslatedText(tm.cl)
    /\ UNCHANGED <<stateVars, translations, display, refVars, rec, tasks, dialogs, gestures, budget, histVars, alerts>>

AutoSpeakFires == \E tm \in DOMAIN timers : AutoSpeakFiresFor(tm)

\* expo-speech reaches the end of the utterance
SpeechFinishes ==
    /\ speaking # NotSpeaking
    /\ speaking' = NotSpeaking
    /\ UNCHANGED <<stateVars, translations, display, refVars, rec, tasks, timers, dialogs, gestures, budget, histVars, alerts>>

----------------------------------------------------------------------------
(* Gestures on the rendered screen *)

\* the input field: onChangeText={setInputText}, editable={!loading && !isTranscribing}
TypeText ==
    \E s \in TypedTexts :
        /\ isMountedRef /\ ~loading /\ ~isTranscribing
        /\ Gesture
        /\ s # inputText
        /\ inputText' = s
        /\ UNCHANGED <<translatedText, targetLanguage, loading, translations, isRecording, isListening, display,
                       languages, hasAudioPermission, isTranscribing>>
        /\ UNCHANGED <<refVars, rec, tasks, timers, dialogs, speaking, histVars, alerts>>

\* a language chip: the catalog's languages other than 'en'
SelectLanguage ==
    \E i \in DOMAIN languages :
        /\ isMountedRef
        /\ Gesture
        /\ languages[i] # "en"
        /\ languages[i] # targetLanguage
        /\ targetLanguage' = languages[i]
        /\ UNCHANGED <<inputText, translatedText, loading, translations, isRecording, isListening, display,
                       languages, hasAudioPermission, isTranscribing>>
        /\ UNCHANGED <<refVars, rec, tasks, timers, dialogs, speaking, histVars, alerts>>

\* the 'Translate Text' button: disabled={loading || !inputText.trim() || isTranscribing}
PressTranslate ==
    /\ isMountedRef
    /\ ~(loading \/ Trim(inputText) = EmptyText \/ isTranscribing)
    /\ Gesture
    /\ HandleTranslate(Closure, tasks)
    /\ UNCHANGED <<inputText, translatedText, targetLanguage, isRecording, isListening, display,
                   languages, hasAudioPermission, isTranscribing>>
    /\ UNCHANGED <<refVars, rec, timers, dialogs, speaking, histVars>>

\* a quick-phrase button (disabled={loading || isTranscribing}): handleQuickPhrase
HandleQuickPhrase ==
    \E phrase \in quickPhrases :
        /\ isMountedRef
        /\ ~(loading \/ isTranscribing)
        /\ Gesture
        /\ inputText' = phrase
        /\ timers' = Add(timers, Timer("quick", 0, Closure, phrase))
        /\ UNCHANGED <<translatedText, targetLanguage, loading, translations, isRecording, isListening, display,
                       languages, hasAudioPermission, isTranscribing>>
        /\ UNCHANGED <<refVars, rec, tasks, dialogs, speaking, histVars, alerts>>

\* 'Speak Again', rendered with the translation card
PressSpeakAgain ==
    /\ isMountedRef
    /\ Truthy(translatedText)
    /\ Gesture
    /\ SpeakTranslatedText(Closure)
    /\ UNCHANGED <<stateVars, translations, display, refVars, rec, tasks, timers, dialogs, histVars, alerts>>

\* 'Stop', rendered with the translation card: stopSpeaking
StopSpeaking ==
    /\ isMountedRef
    /\ Truthy(translatedText)
    /\ Gesture
    /\ speaking' = NotSpeaking
    /\ UNCHANGED <<stateVars, translations, display, refVars, rec, tasks, timers, dialogs, histVars, alerts>>

----------------------------------------------------------------------------
(* Teardown: the cleanup function of the mount effect *)

Unmount ==
    /\ isMountedRef
    /\ Gesture
    /\ isMountedRef' = FALSE
    /\ CleanupRecordingCall("none", NoClosure, tasks, FALSE)
    /\ timers' = ClearTimeout(timers, recordingTimeoutRef)
    /\ speaking' = NotSpeaking
    /\ UNCHANGED <<inputText, translatedText, targetLanguage, loading, translations, languages,
                   hasAudioPermission, isTranscribing>>
    /\ UNCHANGED <<recordingRef, recordingTimeoutRef, rec, dialogs, histVars, alerts>>

----------------------------------------------------------------------------
(* The screen *)

Next ==
    \/ LoadLanguagesResolves
    \/ DisplayTick
    \/ SetupAudioPermissionResolves
    \/ SetupAudioModeResolves
    \/ HandleVoiceTranslate
    \/ CleanupStatusResolves
    \/ CleanupUnloadResolves
    \/ StartDelayElapses
    \/ StartModeResolves
    \/ StartPrepareResolves
    \/ StartStartResolves
    \/ AutoStopFires
    \/ StopStatusResolves
    \/ StopUnloadResolves
    \/ TranscriptionResolves
    \/ ShowDetectedAlert
    \/ PressAlertTranslate
    \/ PressAlertCancel
    \/ ConfirmedTranslateFires
    \/ QuickTranslateFires
    \/ TranslateResolves
    \/ AutoSpeakFires
    \/ SpeechFinishes
    \/ TypeText
    \/ SelectLanguage
    \/ PressTranslate
    \/ HandleQuickPhrase
    \/ PressSpeakAgain
    \/ StopSpeaking
    \/ Unmount

Spec == Init /\ [][Next]_vars

----------------------------------------------------------------------------
(* The capture machine alone: the driver uses only the voice button.       *)

NextCapture ==
    \/ LoadLanguagesResolves
    \/ DisplayTick
    \/ SetupAudioPermissionResolves
    \/ SetupAudioModeResolves
    \/ HandleVoiceTranslate
    \/ CleanupStatusResolves
    \/ CleanupUnloadResolves
    \/ StartDelayElapses
    \/ StartModeResolves
    \/ StartPrepareResolves
    \/ StartStartResolves
    \/ AutoStopFires
    \/ StopStatusResolves
    \/ StopUnloadResolves
    \/ TranscriptionResolves
    \/ ShowDetectedAlert
    \/ Unmount

SpecCapture == InitVoice /\ [][NextCapture]_vars

(* The capture machine with startRecording() and stopRecording() also      *)
(* called directly, whatever the button and the live-session flag say, as  *)
(* a caller of the controller's start() and stop() may.                    *)

CallStopRecording ==
    /\ Gesture
    /\ StopRecording(Closure, timers)
    /\ UNCHANGED <<inputText, translatedText, targetLanguage, loading, translations, languages,
                   hasAudioPermission, isTranscribing>>
    /\ UNCHANGED <<recordingRef, isRecordingRef, isMountedRef, rec, dialogs, speaking>>

CallStartRecording ==
    /\ Gesture
    /\ StartRecording(Closure)
    /\ UNCHANGED <<inputText, translatedText, targetLanguage, loading, translations, languages,
                   hasAudioPermission, isTranscribing>>
    /\ UNCHANGED <<recordingRef, recordingTimeoutRef, isMountedRef, rec, timers, dialogs,
                   speaking, histVars>>

NextApi == NextCapture \/ CallStopRecording \/ CallStartRecording

SpecApi == InitVoice /\ [][NextApi]_vars

----------------------------------------------------------------------------
(* The text path alone: the driver types, taps quick phrases and listens.  *)

NextText ==
    \/ LoadLanguagesResolves
    \/ SetupAudioPermissionResolves
    \/ SetupAudioModeResolves
    \/ TypeText
    \/ SelectLanguage
    \/ PressTranslate
    \/ HandleQuickPhrase
    \/ QuickTranslateFires
    \/ TranslateResolves
    \/ AutoSpeakFires
    \/ SpeechFinishes
    \/ PressSpeakAgain
    \/ StopSpeaking
    \/ Unmount

SpecText == InitText /\ [][NextText]_vars

----------------------------------------------------------------------------
(* The pipeline up to the translation response, with a recogniser that can *)
(* fail like the other adapters.                                           *)

NextFaults ==
    \/ NextCapture
    \/ RecognitionFails
    \/ PressAlertTranslate
    \/ PressAlertCancel
    \/ ConfirmedTranslateFires
    \/ TypeText
    \/ SelectLanguage
    \/ PressTranslate
    \/ HandleQuickPhrase
    \/ QuickTranslateFires
    \/ TranslateResolves
    \/ AutoSpeakFires

SpecFaults == InitVoice /\ [][NextFaults]_vars

----------------------------------------------------------------------------
(* speakTranslatedText alone: the screen with a translation shown and its   *)
(* auto-speak callback pending, in any of the languages a catalog may hold. *)

\* lang_codes of a catalog richer than the four defaults
WideCatalog == <<"en", "zu", "xh", "af", "st", "ts">>

\* translatedText as the renders around a translation may hold it
ShownTexts == {EmptyText, <<"zu", ":", "H", "i">>, <<"N", "g", "i">>}

InitSpeak ==
    \E shown \in ShownTexts \ {EmptyText} : \E before \in ShownTexts :
    \E i \in DOMAIN WideCatalog :
        /\ WideCatalog[i] # "en"
        /\ inputText = <<"H", "i">>
        /\ translatedText = shown
        /\ targetLanguage = WideCatalog[i]
        /\ loading = FALSE
        /\ isRecording = FALSE
        /\ isListening = FALSE
        /\ languages = WideCatalog
        /\ hasAudioPermission = TRUE
        /\ isTranscribing = FALSE
        /\ recordingRef = 0
        /\ recordingTimeoutRef = 0
        /\ isRecordingRef = FALSE
        /\ isMountedRef = TRUE
        /\ rec = <<>>
        /\ tasks = EmptyBag
        /\ timers = SetToBag({Timer("autoSpeak", 0,
                                    [inputText |-> <<"H", "i">>, translatedText |-> before,
                                     targetLanguage |-> WideCatalog[i],
                                     hasAudioPermission |-> TRUE],
                                    shown)})
        /\ dialogs = EmptyBag
        /\ speaking = NotSpeaking
        /\ gestures = 0
        /\ budget = MaxTextGestures
        /\ stopDuringStart = FALSE
        /\ noopStops = FALSE
        /\ nativeFault = FALSE
        /\ alerts = {}
        /\ translations = [issued |-> 1, shown |-> 1]
        /\ display = [recordingDuration |-> 0, durationIntervalRef |-> 0, intervals |-> {}, created |-> 0]

NextSpeak ==
    \/ AutoSpeakFires
    \/ SpeechFinishes
    \/ SelectLanguage
    \/ PressSpeakAgain
    \/ StopSpeaking
    \/ Unmount

SpecSpeak == InitSpeak /\ [][NextSpeak]_vars

----------------------------------------------------------------------------
(* Claims *)

\* C1: in every reachable state at most one native recording is live
\* (started and not yet stopped-and-unloaded), two startRecording calls in
\* flight at once included.
C1_AtMostOneLiveRecording == Cardinality(Live) <= 1

\* C2: for each capture session the stop executes once: stopAndUnloadAsync is
\* called at most once on its recording, at most one utterance of it is handed
\* to processRecordedAudio, and no auto-stop timer stays armed for a session
\* on which a stop has been executed.
C2_StopExecutesOnce ==
    /\ \A r \in DOMAIN rec : rec[r].stops <= 1 /\ rec[r].handed <= 1
    /\ \A tm \in DOMAIN timers : tm.kind = "autoStop" => rec[tm.r].stops = 0

\* C3: after teardown (isMountedRef false) no step writes a useState cell.
C3_NoStateWriteAfterTeardown == [][~isMountedRef => UNCHANGED stateVars]_vars

\* C4: on the mounted screen, if a stop was requested while a startRecording
\* was suspended and no native call has thrown, then once every pending step
\* has resolved the controller is Idle with nothing dangling: no reference,
\* no flag, no live recording.
C4_StopDuringStartEndsIdle ==
    (stopDuringStart /\ ~nativeFault /\ isMountedRef /\ tasks = EmptyBag /\ timers = EmptyBag) =>
        /\ recordingRef = 0
        /\ ~isRecordingRef
        /\ ~isRecording
        /\ Live = {}

\* C5: a tap on the voice button while a startRecording or a stopRecording is
\* in flight is ignored: it starts no further startRecording or stopRecording.
C5_TapIgnoredWhileInFlight ==
    [][(HandleVoiceTranslate /\ (StartsInFlight > 0 \/ StopsInFlight > 0))
          => tasks' = tasks]_vars

\* a stopRecording with no live session has run and left the controller idle
StoppedIdle ==
    /\ noopStops
    /\ recordingRef = 0
    /\ ~isRecordingRef
    /\ recordingTimeoutRef = 0
    /\ isMountedRef => ~isRecording /\ ~isListening

\* C6: stopRecording invoked with no live session is a no-op: it issues no
\* status query, no stop/unload and no transcription, leaves recordingRef null
\* and isRecordingRef false, and invoked again leaves the state as it is.
C6_StopWithoutSessionIsNoOp ==
    [][(CallStopRecording /\ NoActiveRecording) =>
          /\ tasks' = tasks
          /\ rec' = rec
          /\ UNCHANGED <<inputText, translatedText, isTranscribing, loading>>
          /\ StoppedIdle'
          /\ StoppedIdle => UNCHANGED <<stateVars, refVars, rec, tasks, timers, dialogs,
                                        speaking>>]_vars

\* C6 witness: stopRecording has returned early on a screen with no session
C6_Witness == StoppedIdle /\ isMountedRef /\ hasAudioPermission /\ Len(rec) > 0

\* C7: whenever a stopRecording invoked on a live session leaves its
\* try/catch/finally (the status said recording and the stop succeeded, the
\* status said not recording, or either call threw), recordingRef is null,
\* isRecordingRef is false and, while mounted, isRecording and isListening
\* are false.
C7_StopAlwaysClearsSession ==
    [][StopsInFlight' < StopsInFlight =>
          /\ recordingRef' = 0
          /\ ~isRecordingRef'
          /\ isMountedRef => ~isRecording' /\ ~isListening']_vars

\* C7 witness: a stop/unload was called on a recording and threw, the recording
\* is still live, and the controller is idle all the same
C7_Witness ==
    /\ isMountedRef
    /\ StopsInFlight = 0
    /\ recordingRef = 0 /\ ~isRecordingRef /\ ~isRecording /\ ~isListening
    /\ \E r \in DOMAIN rec : rec[r].stops > 0 /\ rec[r].st = "recording"

\* C8: when the user confirms recognised text T, the translation request that
\* is sent carries T, source language en and the selected target language.
C8_ConfirmSendsRecognizedText ==
    [][\A tm \in DOMAIN timers :
          (isMountedRef /\ ConfirmedTranslateFiresFor(tm)) =>
              tasks' = Add(tasks, Task("t_fetch", translations.issued + 1, "none", tm.cl,
                                       Request(tm.arg, targetLanguage)))]_vars

\* C9: a quick-phrase tap with phrase P starts no capture and no
\* transcription, and results in exactly one translation request, whose
\* source text is P, whatever the input field held before.
C9_QuickPhraseSendsPhrase ==
    [][/\ HandleQuickPhrase => (rec' = rec /\ tasks' = tasks)
       /\ \A tm \in DOMAIN timers :
             (isMountedRef /\ QuickTranslateFiresFor(tm)) =>
                 \E t \in DOMAIN tasks' :
                     /\ tasks' = Add(tasks, t)
                     /\ t.pc = "t_fetch"
                     /\ t.arg.text = tm.arg]_vars

\* C10: after a successful translation response received while mounted,
\* speech playback is invoked automatically with the translated text of that
\* response and the language code of the request's target language.
C10_AutoSpeakSpeaksResponse ==
    [][\A tm \in DOMAIN timers :
          (isMountedRef /\ AutoSpeakFiresFor(tm)) =>
              speaking' = [text |-> tm.arg,
                           language |-> LanguageCode(tm.cl.targetLanguage)]]_vars

\* C11: when a translation request fails (a response that is not ok, or a
\* rejected fetch), the continuation starts no speech and arms no auto-speak
\* callback, leaves the input text and the translated text as they were, and,
\* on the mounted screen, sets loading to false.
C11_FailedTranslationKeepsInput ==
    [][\A t \in DOMAIN tasks : \A outcome \in {"non2xx", "network"} :
          TranslateSettles(t, outcome) =>
              /\ speaking' = speaking
              /\ timers' = timers
              /\ inputText' = inputText
              /\ translatedText' = translatedText
              /\ isMountedRef => ~loading']_vars

\* C11 witness: the first translation has failed: the error was shown, the
\* input is still there, nothing was translated or spoken
C11_Witness ==
    /\ isMountedRef
    /\ "Translation Error" \in alerts
    /\ Trim(inputText) # EmptyText
    /\ translatedText = EmptyText
    /\ ~loading
    /\ speaking = NotSpeaking
    /\ timers = EmptyBag

\* the phases of the pipeline that are active
ActivePhases ==
    {ph \in {"capture", "transcription", "translation", "playback"} :
        \/ ph = "capture" /\ (Live # {} \/ StartsInFlight > 0)
        \/ ph = "transcription" /\ \E t \in DOMAIN tasks : t.pc = "p_transcribe"
        \/ ph = "translation" /\ \E t \in DOMAIN tasks : t.pc = "t_fetch"
        \/ ph = "playback" /\ speaking # NotSpeaking}

\* C12: capture, transcription, translation and playback are strictly
\* sequential: in no reachable state are two of them active at once.
C12_PhasesAreSequential == Cardinality(ActivePhases) <= 1

\* C13: while microphone permission is not granted no startRecording is under
\* way and none has acquired anything: no Recording object exists, no
\* auto-stop timer is armed, recordingRef is null and the recording flags are
\* down; and hasAudioPermission becomes true only in the step in which
\* setAudioModeAsync succeeds, which setupAudio reaches only after the
\* permission request was granted.
C13_NoCaptureWithoutPermission ==
    /\ [](~hasAudioPermission =>
            /\ rec = <<>>
            /\ StartsInFlight = 0
            /\ \A tm \in DOMAIN timers : tm.kind # "autoStop"
            /\ recordingRef = 0 /\ recordingTimeoutRef = 0
            /\ ~isRecordingRef /\ ~isRecording)
    /\ [][(~hasAudioPermission /\ hasAudioPermission') =>
             \E t \in DOMAIN tasks : SetupAudioModeSettles(t, TRUE)]_vars

\* C13 witness: the setup threw, and a startRecording called afterwards was
\* turned away by its permission guard
C13_Witness ==
    /\ ~hasAudioPermission
    /\ "Audio Error" \in alerts
    /\ "Permission Required" \in alerts
    /\ rec = <<>> /\ tasks = EmptyBag

\* setupAudio has ended with the permission request denied
PermissionDenied ==
    /\ ~hasAudioPermission
    /\ "Permission Required" \in alerts
    /\ \A t \in DOMAIN tasks : t.pc \notin {"a_perm", "a_mode"}

\* C14: after a permission denial, on the mounted screen, permission can be
\* requested again: some step of the screen issues a new permission request.
C14_DeniedPermissionCanBeRetried ==
    (PermissionDenied /\ isMountedRef) =>
        ENABLED (Next /\ \E t \in DOMAIN tasks' : t.pc = "a_perm")

\* C14 witness: the request was denied and the screen is still mounted
C14_Witness == PermissionDenied /\ isMountedRef /\ languages # <<>>

\* once denied, capture is never enabled again on this screen
DeniedStaysDenied == [][PermissionDenied => ~hasAudioPermission']_vars

\* C15: a successful transcription sends nothing by itself: on the mounted
\* screen it puts the recognised text into the input field and arms its
\* presentation; presenting it and 'Cancel' send nothing and arm nothing that
\* would; 'Translate' arms one confirmed call, and that call sends exactly one
\* translation request.
C15_TranslationWaitsForConfirm ==
    [][/\ \A t \in DOMAIN tasks : \A T \in commonPhrases :
            (isMountedRef /\ TranscriptionSettles(t, T)) =>
                /\ inputText' = T
                /\ tasks' = Remove(tasks, t)
                /\ timers' = Add(timers, Timer("showAlert", 0, t.cl, T))
       /\ ShowDetectedAlert => (tasks' = tasks /\ timers' \sqsubseteq timers)
       /\ PressAlertCancel => (tasks' = tasks /\ timers' = timers)
       /\ PressAlertTranslate =>
            /\ tasks' = tasks
            /\ \E tm \in DOMAIN timers' : tm.kind = "confirmed" /\ timers' = Add(timers, tm)
       /\ \A tm \in DOMAIN timers :
            (isMountedRef /\ ConfirmedTranslateFiresFor(tm)) =>
                \E t \in DOMAIN tasks' : t.pc = "t_fetch" /\ tasks' = Add(tasks, t)]_vars

\* the state a stop leaves behind when it has nothing to transcribe
BackToIdle ==
    /\ recordingRef = 0
    /\ ~isRecordingRef
    /\ isMountedRef => ~isRecording /\ ~isListening

\* C16: on the mounted screen, a stop whose stop/unload succeeded and that
\* obtained a URI starts exactly one transcription, of that URI; a stop that
\* produced no utterance (the status said not recording, the status query or
\* the stop threw) starts no transcription, changes neither inputText nor
\* translatedText and leaves the controller idle.
C16_OneTranscriptionPerUtterance ==
    [][\A t \in DOMAIN tasks :
          /\ (isMountedRef /\ recordingRef # 0 /\ StopUnloadSettles(t, TRUE, TRUE)) =>
                /\ tasks' = Add(Remove(tasks, t), [t EXCEPT !.pc = "p_transcribe", !.r = recordingRef])
                /\ rec'[recordingRef].handed = rec[recordingRef].handed + 1
                /\ UNCHANGED <<inputText, translatedText>>
          /\ \A released \in BOOLEAN :
                (\/ StopUnloadSettles(t, FALSE, released)
                 \/ StopStatusSettles(t, FALSE)
                 \/ ~IsRecordingNow(t.r) /\ StopStatusSettles(t, TRUE)) =>
                    /\ tasks' = Remove(tasks, t)
                    /\ UNCHANGED <<inputText, translatedText, isTranscribing, timers>>
                    /\ BackToIdle']_vars

\* C16 witness: a stop has produced an utterance and its transcription is
\* pending
C16_Witness ==
    \E t \in DOMAIN tasks :
        /\ t.pc = "p_transcribe"
        /\ tasks[t] = 1
        /\ rec[t.r].st = "done" /\ rec[t.r].handed = 1
        /\ isTranscribing /\ recordingRef = 0

\* C17: when prepareToRecordAsync() or startAsync() throws in a
\* startRecording, that call ends there with recordingRef null,
\* isRecordingRef false, on the mounted screen isRecording and isListening
\* false, no auto-stop timer armed, and the 'Recording Error' alert shown.
C17_AcquireFailureClearsSession ==
    [][\A t \in DOMAIN tasks :
          (StartPrepareSettles(t, FALSE) \/ StartStartSettles(t, FALSE)) =>
              /\ tasks' = Remove(tasks, t)
              /\ recordingRef' = 0
              /\ ~isRecordingRef'
              /\ isMountedRef => ~isRecording' /\ ~isListening'
              /\ timers' = timers /\ recordingTimeoutRef' = recordingTimeoutRef
              /\ "Recording Error" \in alerts']_vars

\* C17 witness: an acquisition has failed on the mounted screen and nothing
\* is left of the attempt but the Recording object that was never started
C17_Witness ==
    /\ isMountedRef
    /\ "Recording Error" \in alerts
    /\ recordingRef = 0 /\ ~isRecordingRef /\ ~isRecording /\ ~isListening
    /\ StartsInFlight = 0 /\ timers = EmptyBag
    /\ \E r \in DOMAIN rec : rec[r].st \in {"created", "prepared"}

\* C18: at the moment a startRecording acquires its recording (the Recording
\* object is created, and later started), no native call having thrown, no
\* prior recording is live.
C18_AcquireAfterRelease ==
    [][\A t \in DOMAIN tasks :
          (~nativeFault /\ (StartModeSettles(t, TRUE) \/ StartStartSettles(t, TRUE))) =>
              Live = {}]_vars

\* something that will stop recording r is pending: its auto-stop timer, or a
\* stopRecording or cleanupRecording that holds r
StopPending(r) ==
    \/ \E tm \in DOMAIN timers : tm.kind = "autoStop" /\ tm.r = r
    \/ \E t \in DOMAIN tasks : t.pc \in {"p_status", "p_unload", "c_status", "c_unload"} /\ t.r = r

\* C19: no native call having thrown, every live recording has its auto-stop
\* timer armed or a stop of it under way, so that none stays live forever.
C19_LiveRecordingWillBeStopped ==
    ~nativeFault => \A r \in Live : StopPending(r)

\* C19 witness: a recording is live with its auto-stop timer armed
C19_Witness ==
    \E r \in Live :
        /\ recordingRef = r /\ recordingTimeoutRef = r
        /\ \E tm \in DOMAIN timers : tm.kind = "autoStop" /\ tm.r = r

\* C20: after teardown, no native call having thrown, once every pending step
\* has resolved no recording is live and recordingRef and isRecordingRef are
\* cleared; and a cleanupRecording called with no session held (by teardown
\* or by startRecording) touches no Recording and leaves the references as
\* they were.
C20_TeardownReleasesLiveRecording ==
    /\ []((~isMountedRef /\ ~nativeFault /\ tasks = EmptyBag /\ timers = EmptyBag) =>
            (Live = {} /\ recordingRef = 0 /\ ~isRecordingRef))
    /\ [][((Unmount \/ HandleVoiceTranslate) /\ recordingRef = 0 /\ ~isRecordingRef) =>
             /\ rec' = rec
             /\ UNCHANGED <<recordingRef, isRecordingRef, isRecording, isListening>>
             /\ \A t \in DOMAIN tasks' : t.pc \notin {"c_status", "c_unload"}]_vars

\* C20 witness: the screen was torn down with a recording live, and the
\* teardown's cleanupRecording has stopped and unloaded it
C20_Witness ==
    /\ ~isMountedRef /\ ~nativeFault
    /\ tasks = EmptyBag /\ timers = EmptyBag
    /\ recordingRef = 0 /\ ~isRecordingRef
    /\ isRecording
    /\ \E r \in DOMAIN rec : rec[r].st = "done" /\ rec[r].handed = 0

\* the teardown's cleanupRecording, taken by itself: it calls
\* stopAndUnloadAsync() on the recording it finds recording, and returns with
\* the references cleared
TeardownCleanupReleasesSession ==
    [][\A t \in DOMAIN tasks :
          /\ (Unmount /\ recordingRef # 0) =>
                tasks' = Add(tasks, Task("c_status", recordingRef, "none", NoClosure, NoRequest))
          /\ (t.parent = "none" /\ recordingRef = t.r /\ IsRecordingNow(t.r)
                /\ CleanupStatusSettles(t, TRUE)) =>
                rec'[t.r].stops = rec[t.r].stops + 1
          /\ (t.parent = "none" /\ CleanupUnloadSettles(t, TRUE, TRUE)) =>
                (rec'[t.r].st = "done" /\ recordingRef' = 0 /\ ~isRecordingRef')]_vars

\* C21: after teardown no capture session comes into existence: no step
\* creates or starts a Recording, publishes one in recordingRef or arms an
\* auto-stop timer.
C21_NoSessionAfterTeardown ==
    [][~isMountedRef =>
          /\ Len(rec') = Len(rec)
          /\ \A r \in DOMAIN rec : rec'[r].st = "recording" => rec[r].st = "recording"
          /\ recordingRef' \in {recordingRef, 0}
          /\ isRecordingRef' => isRecordingRef
          /\ \A tm \in DOMAIN timers' : tm.kind = "autoStop" => tm \in DOMAIN timers]_vars

\* C21 witness: the screen was torn down while a startRecording was suspended
C21_Witness ==
    /\ ~isMountedRef
    /\ \E t \in DOMAIN tasks : t.pc \in StartPcs
    /\ recordingRef = 0 /\ Live = {}

\* C22: playback never outlives the screen: teardown stops the speech in
\* progress, nothing is being spoken after teardown, and after teardown no
\* step starts speech or arms an auto-speak callback.
C22_PlaybackEndsWithScreen ==
    /\ [](~isMountedRef => speaking = NotSpeaking)
    /\ [][Unmount => speaking' = NotSpeaking]_vars
    /\ [][~isMountedRef =>
            /\ speaking' = NotSpeaking
            /\ \A tm \in DOMAIN timers' : tm.kind = "autoSpeak" => tm \in DOMAIN timers]_vars

\* C22 witness: the screen was torn down with the auto-speak callback of a
\* translation pending, whose closure holds a translation to speak
C22_Witness ==
    /\ ~isMountedRef
    /\ speaking = NotSpeaking
    /\ \E tm \in DOMAIN timers : tm.kind = "autoSpeak" /\ Truthy(tm.cl.translatedText)

\* an adapter call has failed: an expo-av call threw, the permission request
\* was denied or threw, the recogniser gave nothing or threw, the catalog or
\* a translation could not be fetched
AdapterFailed ==
    \/ nativeFault
    \/ alerts \cap {"Permission Required", "Audio Error", "Recording Error",
                    "Speech Recognition", "Speech Recognition Error",
                    "Translation Error", "Error"} # {}

\* C23: on the mounted screen, after an adapter failure and once every
\* pending step has resolved, isRecording, isListening, isTranscribing and
\* loading are false and the next gesture is accepted: the quick-phrase
\* buttons are enabled and, with permission granted, the voice button is
\* enabled and a tap on it starts a capture.
C23_FailureReturnsToIdle ==
    (isMountedRef /\ AdapterFailed /\ tasks = EmptyBag /\ timers = EmptyBag) =>
        /\ ~isRecording /\ ~isListening /\ ~isTranscribing /\ ~loading
        /\ ~(loading \/ isTranscribing)
        /\ hasAudioPermission => (~VoiceButtonDisabled /\ ~isRecordingRef)

\* C23 witness: after an acquisition failure the voice button was tapped
\* again, and that capture has started
C23_Witness ==
    /\ isMountedRef
    /\ "Recording Error" \in alerts
    /\ Live # {} /\ isRecording /\ isRecordingRef

\* this step has called startRecording(): one more activation of it is suspended
StartCalled == \E t \in DOMAIN tasks' : IsStartTask(t) /\ tasks' = Add(tasks, t)

\* this step has called stopRecording(): it queries the status of the
\* recording, or has taken the 'No active recording' return
StopCalled ==
    \/ \E t \in DOMAIN tasks' : t.pc = "p_status" /\ tasks' = Add(tasks, t)
    \/ NoActiveRecording /\ tasks' = tasks /\ noopStops'

\* C24: a tap on the voice button calls stopRecording if and only if
\* isRecordingRef is true at the tap, and startRecording otherwise; it never
\* calls both.
C24_TapTogglesOnLiveFlag ==
    [][HandleVoiceTranslate =>
          /\ isRecordingRef => (StopCalled /\ ~StartCalled)
          /\ ~isRecordingRef => (StartCalled /\ ~StopCalled)]_vars

\* C24 witness: the second tap, made with the live-session flag up, has
\* called stopRecording
C24_Witness ==
    /\ isMountedRef /\ gestures = 2 /\ isRecordingRef
    /\ timers = EmptyBag /\ recordingTimeoutRef = 0
    /\ \E t \in DOMAIN tasks : t.pc = "p_status" /\ tasks[t] = 1
    /\ StartsInFlight = 0

\* the transcriptions that are in flight
TranscriptionsInFlight ==
    BagCardinality([t \in {x \in DOMAIN tasks : x.pc = "p_transcribe"} |-> tasks[t]])

\* the session whose utterance t transcribes has been superseded: a later
\* startRecording is under way or has created its Recording
Superseded(t) == StartsInFlight > 0 \/ \E r \in DOMAIN rec : r > t.r

\* C25: at most one transcription is in flight, and the result of a
\* transcription whose session a newer startRecording has superseded is
\* abandoned: it does not change the input field and arms no confirmation
\* prompt.
C25_StaleTranscriptionAbandoned ==
    /\ [](TranscriptionsInFlight <= 1)
    /\ [][\A t \in DOMAIN tasks : \A T \in commonPhrases :
             (Superseded(t) /\ TranscriptionSettles(t, T)) =>
                 /\ inputText' = inputText
                 /\ timers' = timers]_vars

\* C25 witness: a transcription is in flight while a newer startRecording
\* has acquired its recording
C25_Witness ==
    /\ isMountedRef
    /\ \E t \in DOMAIN tasks : t.pc = "p_transcribe" /\ \E r \in Live : r > t.r

\* C26: on the mounted screen the one-second interval is active if and only
\* if isRecording is true, at most one interval is active at a time (the one
\* durationIntervalRef holds), no interval is left after teardown, and
\* recordingDuration changes only in a tick made while recording.
C26_DisplayTimerFollowsRecording ==
    /\ [](/\ isMountedRef => (display.intervals # {} <=> isRecording)
          /\ ~isMountedRef => display.intervals = {}
          /\ Cardinality(display.intervals) <= 1
          /\ display.intervals \subseteq {display.durationIntervalRef})
    /\ [][display.recordingDuration' # display.recordingDuration =>
             /\ isRecording /\ isMountedRef
             /\ display.recordingDuration' = display.recordingDuration + 1]_vars

\* C26 witness: the second capture of the screen is in progress with its own
\* interval, and the readout has counted
C26_Witness ==
    /\ isMountedRef /\ isRecording
    /\ display.created = 2
    /\ display.intervals = {2}
    /\ display.recordingDuration > 0

\* C27: when the language catalog cannot be loaded (a response that is not
\* ok, or a rejected fetch) the language list becomes exactly zu, xh, af, st;
\* when it loads, the list is the languages of the response.
C27_CatalogFallback ==
    [][\A t \in DOMAIN tasks :
          /\ \A outcome \in {"non2xx", "network"} :
                LoadLanguagesSettles(t, outcome) =>
                    (languages' = <<"zu", "xh", "af", "st">> /\ "Error" \in alerts')
          /\ LoadLanguagesSettles(t, "2xx") =>
                (languages' = Catalog /\ alerts' = alerts)]_vars

\* C27 witness: the catalog could not be loaded and the driver has picked
\* isiXhosa, which only the fallback list offers
C27_Witness ==
    /\ languages = DefaultLanguages
    /\ "Error" \in alerts
    /\ targetLanguage = "xh"

\* C28: when the recogniser yields no text or throws, the continuation of
\* processRecordedAudio leaves the input field as it is, arms no confirmation
\* prompt, sends no translation request and starts no other transcription,
\* and on the mounted screen shows its retry message and ends transcribing.
C28_FailedRecognitionAsksRetry ==
    [][\A t \in DOMAIN tasks :
          (TranscriptionSettles(t, EmptyText) \/ TranscriptionThrows(t)) =>
              /\ inputText' = inputText
              /\ timers' = timers /\ dialogs' = dialogs
              /\ tasks' = Remove(tasks, t)
              /\ isMountedRef =>
                    /\ alerts' \cap {"Speech Recognition", "Speech Recognition Error"} # {}
                    /\ ~isTranscribing']_vars

\* C28 witness: the recogniser gave nothing for the stopped utterance: the
\* retry message was shown, nothing is pending and the input is still empty
C28_Witness ==
    /\ isMountedRef
    /\ "Speech Recognition" \in alerts
    /\ \E r \in DOMAIN rec : rec[r].handed = 1
    /\ inputText = EmptyText /\ ~isTranscribing
    /\ tasks = EmptyBag /\ timers = EmptyBag /\ dialogs = EmptyBag

\* C29: no live recording is orphaned: no native call having thrown, every
\* live recording is the one recordingRef holds; and the acquisition-failure
\* path of a startRecording does not clear the reference to a recording that
\* is live.
C29_NoOrphanedRecording ==
    /\ [](~nativeFault => \A r \in Live : recordingRef = r)
    /\ [][\A t \in DOMAIN tasks :
             ((StartPrepareSettles(t, FALSE) \/ StartStartSettles(t, FALSE))
                 /\ recordingRef \in Live) => recordingRef' = recordingRef]_vars

\* C29 witness: after an acquisition failure a later capture is live and
\* recordingRef holds it
C29_Witness ==
    /\ "Recording Error" \in alerts
    /\ Live # {} /\ recordingRef \in Live
    /\ isRecordingRef

\* C30: when translation requests overlap, the response to an earlier-issued
\* request that arrives after the response to a later-issued one is dropped:
\* it does not replace the translated text and arms no auto-speak callback.
C30_LatestTranslationWins ==
    [][\A t \in DOMAIN tasks :
          (isMountedRef /\ t.r < translations.shown /\ TranslateSettles(t, "2xx")) =>
              /\ translatedText' = translatedText
              /\ timers' = timers]_vars

\* C30 witness: two translation requests are in flight at once
C30_Witness ==
    /\ isMountedRef
    /\ \E t1, t2 \in DOMAIN tasks :
          /\ t1.pc = "t_fetch" /\ t2.pc = "t_fetch"
          /\ t1.r < t2.r
          /\ t1.arg # t2.arg

\* C31: at every step boundary isRecordingRef.current is true if and only if
\* recordingRef.current holds a recording.
C31_RefsAgree == isRecordingRef <=> recordingRef # 0

\* C31 witness: between the two awaits of a stopRecording both references
\* still hold the session
C31_Witness ==
    /\ isRecordingRef /\ recordingRef # 0
    /\ \E t \in DOMAIN tasks : t.pc = "p_unload" /\ t.r = recordingRef

\* a cleanupRecording is suspended
CleanupsInFlight ==
    BagCardinality([t \in {x \in DOMAIN tasks : x.pc \in {"c_status", "c_unload"}} |-> tasks[t]])

\* C32: on the mounted screen, whenever no startRecording, stopRecording or
\* cleanupRecording is in flight, isRecording equals isRecordingRef.current.
C32_FlagFollowsRef ==
    (isMountedRef /\ StartsInFlight = 0 /\ StopsInFlight = 0 /\ CleanupsInFlight = 0) =>
        (isRecording <=> isRecordingRef)

\* C32 witness: a capture is live with nothing in flight, and the button
\* shows 'Stop'
C32_Witness ==
    /\ isMountedRef
    /\ StartsInFlight = 0 /\ StopsInFlight = 0 /\ CleanupsInFlight = 0
    /\ isRecording /\ isRecordingRef /\ recordingRef \in Live

\* the translation requests that are in flight
TranslationsInFlight ==
    BagCardinality([t \in {x \in DOMAIN tasks : x.pc = "t_fetch"} |-> tasks[t]])

\* C33: on the mounted screen loading is true exactly when at least one
\* translation request is in flight.
C33_LoadingWhileInFlight ==
    isMountedRef => (loading <=> TranslationsInFlight > 0)

\* C33 witness: two translation requests are in flight and loading is true
C33_Witness ==
    /\ isMountedRef
    /\ loading
    /\ TranslationsInFlight = 2

\* the auto-stop timers that are armed
AutoStopTimers == {tm \in DOMAIN timers : tm.kind = "autoStop"}

\* C34: at most one auto-stop timer is armed at a time, it is the one
\* recordingTimeoutRef holds, and the stopRecording that a firing timer
\* calls is called for, and stops, no recording other than the one of the
\* startRecording that armed the timer.
C34_TimerStopsOwnSession ==
    /\ [](/\ \A tm \in AutoStopTimers : timers[tm] = 1 /\ tm.r = recordingTimeoutRef
          /\ Cardinality(AutoStopTimers) <= 1)
    /\ [][AutoStopFires =>
             \A t \in DOMAIN tasks' :
                 (t.pc = "p_status" /\ tasks' = Add(tasks, t)) => t.r = recordingTimeoutRef]_vars
    /\ [][\A t \in DOMAIN tasks :
             (t.parent = "timer" /\ StopStatusSettles(t, TRUE)) =>
                 \A r \in DOMAIN rec : rec'[r].stops # rec[r].stops => r = t.r]_vars

\* C34 witness: the auto-stop timer of a capture has fired and is stopping it
C34_Witness ==
    /\ gestures = 1 /\ isMountedRef
    /\ AutoStopTimers = {}
    /\ \E t \in DOMAIN tasks : t.pc = "p_status" /\ t.r = recordingRef /\ t.r \in Live

\* what speakTranslatedText does with the translatedText and targetLanguage
\* it sees: nothing for an empty text, otherwise Speech.speak of that text
\* with zu-ZA, xh-ZA, af-ZA or st-ZA for zu, xh, af, st and en-US for any
\* other code
SpeaksAsMapped(text, target) ==
    IF text = EmptyText
    THEN speaking' = speaking
    ELSE /\ speaking'.text = text
         /\ target = "zu" => speaking'.language = "zu-ZA"
         /\ target = "xh" => speaking'.language = "xh-ZA"
         /\ target = "af" => speaking'.language = "af-ZA"
         /\ target = "st" => speaking'.language = "st-ZA"
         /\ target \notin {"zu", "xh", "af", "st"} => speaking'.language = "en-US"

\* C35: speakTranslatedText, called by the auto-speak callback or by 'Speak
\* Again' on the mounted screen, maps zu, xh, af, st to zu-ZA, xh-ZA, af-ZA,
\* st-ZA and every other code to en-US, and starts no playback for an empty
\* translated text.
C35_SpeechLanguageMapping ==
    [][/\ \A tm \in DOMAIN timers :
             (isMountedRef /\ AutoSpeakFiresFor(tm)) =>
                 SpeaksAsMapped(tm.cl.translatedText, tm.cl.targetLanguage)
       /\ PressSpeakAgain => SpeaksAsMapped(translatedText, targetLanguage)]_vars

\* C35 witness: a translation into a language without a voice of its own is
\* being spoken as en-US
C35_Witness ==
    /\ targetLanguage = "ts"
    /\ speaking.text = translatedText
    /\ speaking.language = "en-US"

\* C36: a handleTranslate that sees an empty or whitespace-only input sends
\* no translation request, starts no playback and arms none, leaves loading,
\* inputText and translatedText as they are, and shows its error message.
C36_BlankInputSendsNothing ==
    [][\A tm \in DOMAIN timers :
          (Trim(tm.cl.inputText) = EmptyText
              /\ (QuickTranslateFiresFor(tm) \/ ConfirmedTranslateFiresFor(tm))) =>
              /\ tasks' = tasks
              /\ timers' = Remove(timers, tm)
              /\ speaking' = speaking
              /\ UNCHANGED <<loading, inputText, translatedText, translations>>
              /\ "Error" \in alerts']_vars

\* C36 witness: the catalog has loaded, a handleTranslate has seen a blank
\* input and shown its message, and no request has been sent
C36_Witness ==
    /\ languages = Catalog
    /\ "Error" \in alerts
    /\ translations.issued = 0
    /\ inputText = <<" ">>
    /\ ~loading /\ timers = EmptyBag

\* C37: recordingDuration is 0 at the moment a capture starts, for the first
\* capture on the screen and for every later one.
C37_DurationStartsAtZero ==
    [][(~isRecording /\ isRecording') => display'.recordingDuration = 0]_vars

\* C37 witness: the second capture on the screen has just started, its interval
\* running, after the first one was on the readout for a second
C37_Witness ==
    /\ isRecording
    /\ display.created = 2
    /\ display.intervals = {2}
    /\ display.recordingDuration = 1

=============================================================================
